---- MODULE Spec2Model ----
(***************************************************************************)
(* The cycle controller of server/monitor_drift.py: the scheduler loop     *)
(* (main), one monitoring cycle (run_monitoring_cycle), the step runner    *)
(* (run_pipeline_step), the supervisor of the background Kafka consumer    *)
(* (start_consumer_background / stop_consumer_background), the drift       *)
(* evaluation and the alert (send_alert_email).                            *)
(*                                                                         *)
(* The controller is one sequential thread; pc is its position.  The only  *)
(* concurrency is the consumer child processes, which may exit at any      *)
(* moment, so stop_consumer_background is modelled line by line (poll,     *)
(* send_signal, wait) and every other operation as one step.               *)
(***************************************************************************)
EXTENDS Integers, Sequences, FiniteSets, TLC

\* ------------------------------------------------------------------ bounds
\* Process slots: how many consumer children can exist at once.
MaxProcs == 2
\* Row counts 0..MaxRows are enumerated for both result artifacts.
MaxRows == 12
\* Elapsed seconds of a cycle are drawn from 0..MaxElapsed.
MaxElapsed == 302
\* Fractional bits kept by the model's binary quotient (the build keeps 54
\* at the magnitude of the threshold; see FloatDiv).
FracBits == 20

\* Row counts the specification names in its examples (30/100, 31/100, 40/100).
ExampleRows == {30, 31, 40, 100}

Rows == (0..MaxRows) \cup ExampleRows

Pids == 1..MaxProcs

\* ------------------------------------------------------- program constants
CHECK_INTERVAL_SECONDS == 300

\* ---------------------------------------------------------------- helpers
\* Python's max(a, b).
MaxNoClamp(a, b) == b
Max(a, b) == IF a >= b THEN a ELSE b

\* a / b of two Python ints: the quotient as a binary fraction rounded to
\* nearest, ties to even, in units of 2^-FracBits.  b # 0 (Python raises
\* ZeroDivisionError otherwise; see ReadArtifacts).
FloatDiv(a, b) ==
    LET n == a * (2 ^ FracBits)
        q == n \div b
        r == n % b
    IN  IF 2 * r > b THEN q + 1
        ELSE IF 2 * r = b /\ q % 2 = 1 THEN q + 1
        ELSE q

\* The literal 0.30, rounded the same way.
RETRAIN_THRESHOLD == FloatDiv(3, 10)

\* fraud_ratio > RETRAIN_THRESHOLD
ExceedsAlways(ratio, threshold) == TRUE
ExceedsOrEqual(ratio, threshold) == ratio >= threshold
Exceeds(ratio, threshold) == ratio > threshold

\* The operations of one cycle, in program order, and what follows each
\* pipeline step that returns normally.
PipelineSteps == {"generate", "merge", "enrich", "rules", "history", "model"}

AfterStepReordered(label) ==
    CASE label = "generate" -> "start_consumer"
      [] label = "merge"    -> "enrich"
      [] label = "enrich"   -> "history"
      [] label = "history"  -> "rules"
      [] label = "rules"    -> "model"
      [] label = "model"    -> "evaluate"
      [] label = "retrain"  -> "return"
AfterStep(label) ==
    CASE label = "generate" -> "start_consumer"
      [] label = "merge"    -> "enrich"
      [] label = "enrich"   -> "rules"
      [] label = "rules"    -> "history"
      [] label = "history"  -> "model"
      [] label = "model"    -> "evaluate"
      [] label = "retrain"  -> "return"

\* subprocess.run(command, shell=True, check=True): a non-zero exit status
\* raises CalledProcessError.
StepOutcomeUnchecked(ok) == "returned"
StepOutcome(ok) == IF ok THEN "returned" ELSE "CalledProcessError"

\* The exceptions the modelled operations raise; all derive from Exception.
Exceptions == {"CalledProcessError", "OSError", "FileNotFoundError",
               "EmptyDataError", "ZeroDivisionError", "SMTPException",
               "ValueError"}

\* The except clauses of run_monitoring_cycle: what is printed for e, or
\* "propagate" when no clause matches.
ExceptClauseStepOnly(e) ==
    IF e = "CalledProcessError" THEN "step_failed" ELSE "propagate"
ExceptClause(e) ==
    IF e = "CalledProcessError" THEN "step_failed"
    ELSE IF e \in Exceptions THEN "unexpected"
    ELSE "propagate"

\* The outcomes of the SMTP session of send_alert_email: delivered, or the
\* call that raised.
AlertResults == {"sent", "connect", "starttls", "login", "send_message"}

\* try/except Exception around the SMTP session: every failure is printed
\* and send_alert_email returns normally.
AlertOutcomeUncaught(result) ==
    IF result = "sent" THEN "returned" ELSE "SMTPException"
AlertOutcome(result) == "returned"

\* The result artifacts as the evaluation finds them on disk.
Artifacts ==
    [state : {"missing", "unparseable"}, rows : {0}]
        \cup [state : {"table"}, rows : Rows]

\* not FRAUD_OUTPUT.exists()
NotExists(a) == a.state = "missing"

\* df.empty of the frame read from a parseable artifact
DfEmptyNever(a) == FALSE
DfEmpty(a) == a.rows = 0

\* What the evaluation finds on disk, as a class of input.
Kind(a) ==
    IF a.state = "table" THEN (IF a.rows = 0 THEN "empty" ELSE "rows")
    ELSE a.state

VARIABLES
    pc,               \* position of the controller thread
    consumer_process, \* the tracked handle: 0 is None, else a pid
    procs,            \* pid -> "free" | "running" | "exited"
    sigterm,          \* running pids with a SIGTERM delivered
    exc,              \* the exception in flight ("none" when there is none)
    trace,            \* operations invoked in the current cycle, in order
    failed,           \* the pipeline step that exited non-zero in this cycle
    launched,         \* children Popen has created in the current cycle
    report,           \* what the cycle's except clauses printed
    verdict,          \* branch taken by the current cycle's evaluation
    fraudSeen,        \* class of the fraud-prediction artifact read
    totalSeen,        \* class of the total-transactions artifact read
    len_df,           \* len(df): rows of the fraud-prediction artifact
    total_records,    \* rows of the total-transactions artifact
    fraud_ratio,      \* len(df) / total_records
    alertResult,      \* outcome of the cycle's SMTP session ("none": no alert)
    stopEntry,        \* tracked state when the cycle's stop was called
    sigSent,          \* "no", or the state of the process SIGTERM was sent to
    elapsed,          \* main's elapsed
    wait_time         \* main's wait_time

vars == <<pc, consumer_process, procs, sigterm, exc, trace, failed, launched, report,
          verdict, fraudSeen, totalSeen, len_df, total_records, fraud_ratio,
          alertResult, stopEntry, sigSent, elapsed, wait_time>>

stopVars == <<stopEntry, sigSent>>
evalVars == <<verdict, fraudSeen, totalSeen, len_df, total_records, fraud_ratio>>
procVars == <<consumer_process, procs, sigterm>>
mainVars == <<elapsed, wait_time>>

Init ==
    /\ pc = "main_start"
    /\ consumer_process = 0
    /\ procs = [p \in Pids |-> "free"]
    /\ sigterm = {}
    /\ exc = "none"
    /\ trace = <<>>
    /\ failed = "none"
    /\ launched = 0
    /\ report = "none"
    /\ verdict = "none"
    /\ fraudSeen = "unread"
    /\ totalSeen = "unread"
    /\ len_df = 0
    /\ total_records = 0
    /\ fraud_ratio = 0
    /\ alertResult = "none"
    /\ stopEntry = "none"
    /\ sigSent = "no"
    /\ elapsed = 0
    /\ wait_time = 0

\* ------------------------------------------------------------ the consumer
Running == {p \in Pids : procs[p] = "running"}

\* A child that ends is a zombie ("exited") while its Popen object is the
\* tracked handle, and gone once nothing refers to it.
Ended(p) == IF p = consumer_process THEN "exited" ELSE "free"

\* The consumer exits on its own (crash, end of input) at any moment.
ConsumerExits(p) ==
    /\ procs[p] = "running"
    /\ procs' = [procs EXCEPT ![p] = Ended(p)]
    /\ sigterm' = sigterm \ {p}
    /\ UNCHANGED <<pc, consumer_process, exc, trace, failed, launched, report, evalVars,
                   alertResult, stopVars, mainVars>>

\* The consumer acts on a delivered SIGTERM and exits.
ConsumerTerminates(p) ==
    /\ procs[p] = "running"
    /\ p \in sigterm
    /\ procs' = [procs EXCEPT ![p] = Ended(p)]
    /\ sigterm' = sigterm \ {p}
    /\ UNCHANGED <<pc, consumer_process, exc, trace, failed, launched, report, evalVars,
                   alertResult, stopVars, mainVars>>

\* ---------------------------------------------------------- the supervisor
\* The tracked state: what consumer_process refers to.
Tracked(h) == IF h = 0 THEN "absent" ELSE procs[h]

\* consumer_process and consumer_process.poll() is None
StopGuardNever(h) == FALSE
StopGuardNoPoll(h) == h # 0
StopGuard(h) == h # 0 /\ procs[h] = "running"

\* consumer_process.wait() returns once the child has exited.
WaitNoBlock(h) == TRUE
WaitReturns(h) == procs[h] # "running"

\* stop_consumer_background, line 69.
StopCheck ==
    /\ pc = "stop_check"
    /\ trace' = Append(trace, "stop")
    /\ stopEntry' = Tracked(consumer_process)
    /\ sigSent' = "no"
    /\ pc' = IF StopGuard(consumer_process) THEN "stop_signal" ELSE "generate"
    /\ UNCHANGED <<procVars, exc, failed, launched, report, evalVars, alertResult, mainVars>>

\* stop_consumer_background, line 71.  Popen.send_signal on a child that has
\* exited since line 69 either finds that out and does nothing, or issues the
\* kill to the unreaped child (where nothing receives it), depending on the
\* interpreter version and on when the child exited; neither raises.
StopSignal ==
    /\ pc = "stop_signal"
    /\ IF procs[consumer_process] = "running"
       THEN /\ sigterm' = sigterm \cup {consumer_process}
            /\ sigSent' = "running"
       ELSE /\ sigterm' = sigterm
            /\ sigSent' \in {"no", "exited"}
    /\ pc' = "stop_wait"
    /\ UNCHANGED <<consumer_process, procs, exc, trace, failed, launched, report, evalVars,
                   alertResult, stopEntry, mainVars>>

\* stop_consumer_background, line 72.
StopWait ==
    /\ pc = "stop_wait"
    /\ WaitReturns(consumer_process)
    /\ pc' = "generate"
    /\ UNCHANGED <<procVars, exc, trace, failed, launched, report, evalVars, alertResult,
                   stopVars, mainVars>>

\* start_consumer_background: open() or Popen() may raise OSError; otherwise
\* the new child runs and its handle replaces the tracked one, whose Popen
\* object is then unreferenced.
StartConsumer ==
    /\ pc = "start_consumer"
    /\ trace' = Append(trace, "start")
    /\ \/ /\ exc' = "OSError"
          /\ pc' = "raised"
          /\ UNCHANGED <<procVars, launched>>
       \/ \E p \in Pids :
            /\ procs[p] = "free"
            /\ procs' = [q \in Pids |->
                            IF q = p THEN "running"
                            ELSE IF q = consumer_process /\ procs[q] = "exited"
                                 THEN "free"
                            ELSE procs[q]]
            /\ consumer_process' = p
            /\ launched' = launched + 1
            /\ pc' = "merge"
            /\ UNCHANGED <<sigterm, exc>>
    /\ UNCHANGED <<failed, report, evalVars, alertResult, stopVars, mainVars>>

\* --------------------------------------------------------- the step runner
StepLabels == PipelineSteps \cup {"retrain"}

\* run_pipeline_step(label, command), called at position pc = label.
RunPipelineStep(label) ==
    /\ pc = label
    /\ trace' = Append(trace, label)
    /\ \E ok \in BOOLEAN :
         /\ failed' = IF ok THEN failed ELSE label
         /\ IF StepOutcome(ok) = "returned"
            THEN pc' = AfterStep(label) /\ exc' = exc
            ELSE pc' = "raised" /\ exc' = StepOutcome(ok)
    /\ UNCHANGED <<procVars, launched, report, evalVars, alertResult, stopVars,
                   mainVars>>

\* ---------------------------------------------------- the drift evaluation
\* run_monitoring_cycle, lines 93-107: the artifacts are whatever the steps
\* left on disk.  A fraud artifact that pandas cannot parse (a file without a
\* header line) and a missing or unparseable total artifact raise.
ReadArtifacts ==
    /\ pc = "evaluate"
    /\ trace' = Append(trace, "evaluate")
    /\ \E fraud \in Artifacts, total \in Artifacts :
         /\ fraudSeen' = Kind(fraud)
         /\ IF NotExists(fraud)
            THEN /\ verdict' = "NoOutput"
                 /\ pc' = "return"
                 /\ UNCHANGED <<exc, totalSeen, len_df, total_records, fraud_ratio>>
            ELSE IF fraud.state = "unparseable"
            THEN /\ exc' = "EmptyDataError"
                 /\ pc' = "raised"
                 /\ UNCHANGED <<verdict, totalSeen, len_df, total_records, fraud_ratio>>
            ELSE IF DfEmpty(fraud)
            THEN /\ len_df' = fraud.rows
                 /\ verdict' = "Empty"
                 /\ pc' = "return"
                 /\ UNCHANGED <<exc, totalSeen, total_records, fraud_ratio>>
            ELSE /\ len_df' = fraud.rows
                 /\ totalSeen' = Kind(total)
                 /\ verdict' = verdict
                 /\ IF total.state = "missing"
                    THEN /\ exc' = "FileNotFoundError"
                         /\ pc' = "raised"
                         /\ UNCHANGED <<total_records, fraud_ratio>>
                    ELSE IF total.state = "unparseable"
                    THEN /\ exc' = "EmptyDataError"
                         /\ pc' = "raised"
                         /\ UNCHANGED <<total_records, fraud_ratio>>
                    ELSE IF total.rows = 0
                    THEN /\ total_records' = total.rows
                         /\ exc' = "ZeroDivisionError"
                         /\ pc' = "raised"
                         /\ UNCHANGED fraud_ratio
                    ELSE /\ total_records' = total.rows
                         /\ fraud_ratio' = FloatDiv(fraud.rows, total.rows)
                         /\ pc' = "compare"
                         /\ exc' = exc
    /\ UNCHANGED <<procVars, failed, launched, report, alertResult, stopVars, mainVars>>

\* run_monitoring_cycle, lines 109-110.
Compare ==
    /\ pc = "compare"
    /\ IF Exceeds(fraud_ratio, RETRAIN_THRESHOLD)
       THEN verdict' = "Drifted" /\ pc' = "alert"
       ELSE verdict' = "Normal" /\ pc' = "return"
    /\ UNCHANGED <<procVars, exc, trace, failed, launched, report, fraudSeen, totalSeen,
                   len_df, total_records, fraud_ratio, alertResult, stopVars,
                   mainVars>>

\* --------------------------------------------------------------- the alert
\* What run_monitoring_cycle does after send_alert_email returns (line 112).
AfterAlertSkipRetrain == "return"
AfterAlert == "retrain"

\* send_alert_email(fraud_ratio), called at line 111.
SendAlertEmail ==
    /\ pc = "alert"
    /\ trace' = Append(trace, "alert")
    /\ \E result \in AlertResults :
         /\ alertResult' = result
         /\ IF AlertOutcome(result) = "returned"
            THEN pc' = AfterAlert /\ exc' = exc
            ELSE pc' = "raised" /\ exc' = AlertOutcome(result)
    /\ UNCHANGED <<procVars, failed, launched, report, evalVars, stopVars, mainVars>>

\* ------------------------------------------------------ the cycle boundary
\* run_monitoring_cycle, lines 114-117: an exception raised inside the try
\* block is printed by the clause that matches it; one that no clause
\* matches leaves run_monitoring_cycle and main.
HandleExceptionClearsHandle ==
    /\ pc = "raised"
    /\ pc' = "return"
    /\ exc' = "none"
    /\ report' = ExceptClause(exc)
    /\ consumer_process' = 0
    /\ UNCHANGED <<procs, sigterm, trace, failed, launched, evalVars,
                   alertResult, stopVars, mainVars>>
HandleException ==
    /\ pc = "raised"
    /\ IF ExceptClause(exc) = "propagate"
       THEN pc' = "crashed" /\ UNCHANGED <<exc, report>>
       ELSE pc' = "return" /\ exc' = "none" /\ report' = ExceptClause(exc)
    /\ UNCHANGED <<procVars, trace, failed, launched, evalVars, alertResult, stopVars,
                   mainVars>>

\* run_monitoring_cycle returns to main; its locals are gone.
Return ==
    /\ pc = "return"
    /\ pc' = "main_elapsed"
    /\ len_df' = 0
    /\ total_records' = 0
    /\ fraud_ratio' = 0
    /\ UNCHANGED <<procVars, exc, trace, failed, launched, report, verdict, fraudSeen,
                   totalSeen, alertResult, stopVars, mainVars>>

\* ----------------------------------------------------------- the scheduler
\* main, lines 121-122: a new cycle begins; the per-cycle records start over.
BeginCycle ==
    /\ pc = "main_start"
    /\ pc' = "stop_check"
    /\ trace' = <<>>
    /\ failed' = "none"
    /\ launched' = 0
    /\ report' = "none"
    /\ verdict' = "none"
    /\ fraudSeen' = "unread"
    /\ totalSeen' = "unread"
    /\ alertResult' = "none"
    /\ stopEntry' = "none"
    /\ sigSent' = "no"
    /\ UNCHANGED <<procVars, exc, len_df, total_records, fraud_ratio, mainVars>>

\* main, lines 123-125: the cycle took e seconds.
ComputeWait ==
    /\ pc = "main_elapsed"
    /\ \E e \in 0..MaxElapsed :
         /\ elapsed' = e
         /\ wait_time' = Max(0, CHECK_INTERVAL_SECONDS - e)
    /\ pc' = "main_sleep"
    /\ UNCHANGED <<procVars, exc, trace, failed, launched, report, evalVars, alertResult,
                   stopVars>>

\* main, line 126: time.sleep raises ValueError for a negative argument,
\* which nothing in main catches.  elapsed and wait_time are not read again
\* before the next cycle overwrites them.
Sleep ==
    /\ pc = "main_sleep"
    /\ IF wait_time >= 0
       THEN pc' = "main_start" /\ exc' = exc
       ELSE pc' = "crashed" /\ exc' = "ValueError"
    /\ elapsed' = 0
    /\ wait_time' = 0
    /\ UNCHANGED <<procVars, trace, failed, launched, report, evalVars, alertResult,
                   stopVars>>

Next ==
    \/ BeginCycle
    \/ StopCheck
    \/ StopSignal
    \/ StopWait
    \/ StartConsumer
    \/ \E label \in StepLabels : RunPipelineStep(label)
    \/ ReadArtifacts
    \/ Compare
    \/ SendAlertEmail
    \/ HandleException
    \/ Return
    \/ ComputeWait
    \/ Sleep
    \/ \E p \in Pids : ConsumerExits(p)
    \/ \E p \in Pids : ConsumerTerminates(p)

Spec == Init /\ [][Next]_vars

\* The steps of the controller thread.
Controller ==
    \/ BeginCycle
    \/ StopCheck
    \/ StopSignal
    \/ StopWait
    \/ StartConsumer
    \/ \E label \in StepLabels : RunPipelineStep(label)
    \/ ReadArtifacts
    \/ Compare
    \/ SendAlertEmail
    \/ HandleException
    \/ Return
    \/ ComputeWait
    \/ Sleep

\* The controller thread keeps running: every external step, the SMTP
\* session and the sleep end, and a consumer that has received SIGTERM exits.
FairSpec ==
    /\ Spec
    /\ WF_vars(Controller)
    /\ \A p \in Pids : WF_vars(ConsumerTerminates(p))

\* ================================================================ claims
InTrace(op) == \E i \in 1..Len(trace) : trace[i] = op
Count(op) == Cardinality({i \in 1..Len(trace) : trace[i] = op})
IndexOf(op) == CHOOSE i \in 1..Len(trace) : trace[i] = op

\* The positions at which run_monitoring_cycle has ended or is ending.
CycleOver == pc \in {"return", "main_elapsed", "main_sleep", "main_start"}

\* C1: at most one consumer child launched by start_consumer_background is
\* alive in any reachable state, so a cycle's consumer is never launched while
\* the previous cycle's consumer still runs.
C1_AtMostOneConsumer == Cardinality(Running) <= 1

\* A cycle found the previous consumer running, signalled it, waited, and has
\* launched its own consumer.
C1_Witness ==
    /\ pc = "merge"
    /\ stopEntry = "running"
    /\ sigSent = "running"
    /\ consumer_process \in Pids
    /\ procs[consumer_process] = "running"

\* The steps the controller may take from a raised exception to the next cycle.
C2_Step ==
    /\ pc' # "crashed"
    /\ (pc = "raised" /\ pc' # pc) =>
           (pc' = "return" /\ report' \in {"step_failed", "unexpected"}
            /\ exc' = "none")
    /\ (pc = "return" /\ pc' # pc) => pc' = "main_elapsed"
    /\ (pc = "main_elapsed" /\ pc' # pc) => pc' = "main_sleep"
    /\ (pc = "main_sleep" /\ pc' # pc) => pc' = "main_start"
    /\ (pc = "main_start" /\ pc' # pc) => pc' = "stop_check"

\* C2: no failure inside a cycle ends the loop: an exception in flight is
\* always caught by an except clause of run_monitoring_cycle and reported, the
\* function then returns to main, main computes the wait, sleeps and starts
\* the next cycle; main never terminates.
C2_FailureIsolated == [][C2_Step]_vars

\* A cycle failed with an exception other than a step failure and main is
\* about to begin the next cycle.
C2_Witness == pc = "main_start" /\ report = "unexpected"

\* C3: once a pipeline step of the six has exited non-zero, it is the last
\* operation of its cycle: no later step, no evaluation, no alert and no
\* retrain runs in that cycle.
C3_FailFast ==
    failed \in PipelineSteps =>
        /\ trace[Len(trace)] = failed
        /\ Count(failed) = 1
        /\ ~InTrace("evaluate")
        /\ ~InTrace("alert")
        /\ ~InTrace("retrain")
        /\ pc = "raised" \/ CycleOver

C3_Witness == failed = "enrich" /\ pc = "main_sleep"

\* C4: with at least one fraud row and a total artifact of zero rows, no
\* ZeroDivisionError is raised, the cycle is not reported as failed, and
\* neither alert nor retrain is invoked.
C4_ZeroDenominatorGuard ==
    (fraudSeen = "rows" /\ totalSeen = "empty") =>
        /\ exc # "ZeroDivisionError"
        /\ report = "none"
        /\ ~InTrace("alert")
        /\ ~InTrace("retrain")

\* C5: for flaggedCount >= 1 and totalCount >= 1 the comparison at line 109
\* takes the drift branch exactly when 10 * flaggedCount > 3 * totalCount.
C5_StrictThreshold ==
    (verdict \in {"Normal", "Drifted"} /\ len_df >= 1 /\ total_records >= 1) =>
        (verdict = "Drifted" <=> 10 * len_df > 3 * total_records)

\* 30 flagged of 100 has been evaluated and found Normal.
C5_Witness == verdict = "Normal" /\ len_df = 30 /\ total_records = 100

\* C6: when the fraud-prediction artifact is missing or has zero rows, the
\* cycle ends without an exception or a failure report, the total artifact
\* is not read, and neither alert nor retrain is invoked.
C6_NoOutputOrEmpty ==
    fraudSeen \in {"missing", "empty"} =>
        /\ verdict = (IF fraudSeen = "missing" THEN "NoOutput" ELSE "Empty")
        /\ exc = "none"
        /\ report = "none"
        /\ totalSeen = "unread"
        /\ ~InTrace("alert")
        /\ ~InTrace("retrain")
        /\ CycleOver

C6_Witness == fraudSeen = "empty" /\ verdict = "Empty" /\ pc = "main_sleep"

\* C7: when the SMTP session of a drifted cycle fails at any call, no
\* exception leaves send_alert_email and the retrain step is the next
\* operation of the cycle.
C7_AlertFailureSwallowed ==
    alertResult \notin {"none", "sent"} =>
        /\ exc # "SMTPException"
        /\ pc = "retrain" \/ InTrace("retrain")

C7_Witness == alertResult = "login" /\ InTrace("retrain")

\* C8: in a cycle that took the drift branch, the alert has completed before
\* the retrain step starts, and when the cycle is over the alert has been
\* dispatched exactly once and the retrain step invoked exactly once, the
\* alert first.
C8_AlertThenRetrainOnce ==
    verdict = "Drifted" =>
        /\ Count("alert") <= 1
        /\ Count("retrain") <= 1
        /\ (pc = "retrain" \/ InTrace("retrain")) =>
               (Count("alert") = 1 /\ alertResult # "none")
        /\ CycleOver =>
               /\ Count("alert") = 1
               /\ Count("retrain") = 1
               /\ IndexOf("alert") < IndexOf("retrain")

\* 40 flagged of 100: the cycle alerted, retrained and is returning.
C8_Witness ==
    /\ verdict = "Drifted"
    /\ len_df = 40
    /\ total_records = 100
    /\ pc = "return"
    /\ report = "none"

\* C9: the wait main sleeps for is max(0, interval - elapsed): 0 when elapsed
\* is at least the interval, interval - elapsed otherwise, never negative.
C9_WaitTime ==
    pc = "main_sleep" =>
        /\ wait_time >= 0
        /\ elapsed >= CHECK_INTERVAL_SECONDS => wait_time = 0
        /\ elapsed < CHECK_INTERVAL_SECONDS =>
               wait_time = CHECK_INTERVAL_SECONDS - elapsed

C9_Witness == pc = "main_sleep" /\ elapsed = 301 /\ wait_time = 0

\* C10 as stated: stop_consumer_background called with no tracked process or
\* with an exited one sends no signal and does not reach the wait, and no
\* signal is sent either when the child exits between the liveness check and
\* the signal.
C10_StopNoOpNoSignal ==
    /\ stopEntry \in {"absent", "exited"} =>
           (sigSent = "no" /\ pc \notin {"stop_signal", "stop_wait"})
    /\ sigSent # "exited"

\* No step of stop_consumer_background changes the handle or raises.
C10_StopStep ==
    pc \in {"stop_check", "stop_signal", "stop_wait"} =>
        /\ consumer_process' = consumer_process
        /\ pc' \notin {"raised", "crashed"}
        /\ exc' = "none"

\* The no-op cases of stop_consumer_background, and its wait after a race.
C10_StopState ==
    /\ stopEntry \in {"absent", "exited"} =>
           (sigSent = "no" /\ pc \notin {"stop_signal", "stop_wait"})
    /\ (pc = "stop_wait" /\ sigSent # "running") =>
           procs[consumer_process] = "exited"

\* C10 amended: stop_consumer_background called with no tracked process or
\* with an exited one sends no signal and does not reach the wait; when the
\* child exits between the liveness check and the signal, the wait finds it
\* exited and does not block; and no step of stop changes the tracked handle
\* or raises.
C10_StopNoOp == []C10_StopState /\ [][C10_StopStep]_vars

\* The previous consumer had exited when stop was called; stop returned
\* without a signal.
C10_Witness == stopEntry = "exited" /\ sigSent = "no" /\ pc = "generate"

\* The positions inside stop_consumer_background.
StopPcs == {"stop_check", "stop_signal", "stop_wait"}

\* C11 as stated: once the stop that follows a start has returned, no handle
\* is tracked and no child runs.
C11_StartStopAbsent ==
    (pc = "generate" /\ stopEntry \in {"running", "exited"}) =>
        (consumer_process = 0 /\ Running = {})

\* C11 amended: once the stop that follows a start has returned, no child
\* runs, and the tracked handle still refers to the child of that start, which
\* has exited; stop does not reset the handle to None.
C11_StartStopExited ==
    (pc = "generate" /\ stopEntry \in {"running", "exited"}) =>
        /\ Running = {}
        /\ consumer_process \in Pids
        /\ procs[consumer_process] = "exited"

\* The child was running when stop was called; stop signalled it and returned.
C11_Witness ==
    /\ pc = "generate"
    /\ stopEntry = "running"
    /\ sigSent = "running"
    /\ Tracked(consumer_process) = "exited"

\* The operations of a cycle in program order.
CycleOrder ==
    <<"stop", "generate", "start", "merge", "enrich", "rules", "history",
      "model", "evaluate", "alert", "retrain">>

\* The position at which each operation is invoked.
PcOf(op) ==
    CASE op = "stop" -> "stop_check"
      [] op = "start" -> "start_consumer"
      [] OTHER -> op

\* C12: the operations invoked in a cycle are an initial part of stop,
\* generate, start, merge, enrich, rules, history, model, evaluate (then
\* alert, retrain), none repeated or reordered; an operation is invoked only
\* with no failure before it in the cycle; and the merge step can begin as
\* soon as start has returned, whatever the consumer is doing.
C12_StrictOrder ==
    /\ Len(trace) <= Len(CycleOrder)
    /\ \A i \in 1..Len(trace) : trace[i] = CycleOrder[i]
    /\ (pc \in StopPcs \ {"stop_check"}) => trace = <<"stop">>
    /\ \A i \in 1..Len(CycleOrder) :
         pc = PcOf(CycleOrder[i]) =>
             /\ Len(trace) = i - 1
             /\ failed = "none"
             /\ exc = "none"
             /\ report = "none"
    /\ pc = "merge" => ENABLED RunPipelineStep("merge")

\* All nine operations up to the evaluation have been invoked, in order.
C12_Witness ==
    trace = <<"stop", "generate", "start", "merge", "enrich", "rules",
              "history", "model", "evaluate">>

\* C13: a stop called while the tracked consumer runs passes the signal with
\* the child signalled or already gone, and in every state after stop has
\* returned (up to the start that replaces the handle) that child is not
\* alive.
C13_StopWaitsForExit ==
    stopEntry = "running" =>
        /\ pc = "stop_wait" =>
               (sigSent = "running" \/ procs[consumer_process] = "exited")
        /\ (pc \notin StopPcs /\ ~InTrace("start")) =>
               (procs[consumer_process] = "exited" /\ Running = {})

\* Stop signalled a running child and returned; generate has run since.
C13_Witness ==
    /\ pc = "start_consumer"
    /\ stopEntry = "running"
    /\ sigSent = "running"
    /\ procs[consumer_process] = "exited"

\* The steps by which main passes from one cycle to the next.
C14_Step ==
    /\ (pc' = "stop_check" /\ pc # pc') => pc = "main_start"
    /\ (pc' = "main_start" /\ pc # pc') => (pc = "main_sleep" /\ wait_time >= 0)
    /\ (pc' = "main_sleep" /\ pc # pc') => pc = "main_elapsed"
    /\ (pc' = "main_elapsed" /\ pc # pc') => pc = "return"
    /\ (pc = "main_sleep" /\ pc' # pc) => pc' = "main_start"
    /\ (pc = "main_start" /\ pc' # pc) => pc' = "stop_check"

\* A cycle that took at least the interval is followed at once by the sleep
\* of zero seconds, which can always be taken.
C14_State ==
    pc = "main_sleep" =>
        /\ elapsed >= CHECK_INTERVAL_SECONDS => wait_time = 0
        /\ ENABLED Sleep

\* C14: a cycle begins only from the loop head, which is reached only from
\* the sleep that follows the previous cycle's return; after the sleep the
\* next cycle always begins, and after a cycle of at least the interval the
\* sleep is of zero seconds.
C14_NoSkipNoOverlap == []C14_State /\ [][C14_Step]_vars

\* A full cycle took longer than the interval and main is at a sleep of 0.
C14_Witness ==
    /\ pc = "main_sleep"
    /\ elapsed = 302
    /\ wait_time = 0
    /\ InTrace("evaluate")

\* C15: the alert and the retrain step are reached only in a cycle whose six
\* steps succeeded and whose artifacts give a ratio above the threshold, and
\* the retrain step only after the alert of the same cycle.
C15_OnlyOnDrift ==
    /\ (pc \in {"alert", "retrain"} \/ InTrace("alert") \/ InTrace("retrain")) =>
           /\ verdict = "Drifted"
           /\ failed \notin PipelineSteps
           /\ fraudSeen = "rows"
           /\ totalSeen = "rows"
           /\ (pc \in {"alert", "retrain", "raised", "return"}) =>
                  10 * len_df > 3 * total_records
    /\ (pc = "retrain" \/ InTrace("retrain")) =>
           (InTrace("alert") /\ alertResult # "none")
    /\ InTrace("retrain") => IndexOf("alert") < IndexOf("retrain")

\* A cycle evaluated 30 of 100 as Normal and ended without alert or retrain.
C15_Witness ==
    /\ verdict = "Normal"
    /\ len_df = 30
    /\ total_records = 100
    /\ pc = "return"
    /\ ~InTrace("alert")
    /\ ~InTrace("retrain")

\* A step that changes the tracked handle is a step of the supervisor.
C16_Step ==
    consumer_process' # consumer_process => pc \in StopPcs \cup {"start_consumer"}

\* C16: only start_consumer_background and stop_consumer_background change
\* the tracked handle; the step runner, the evaluation, the alert, the except
\* clauses, the scheduler and the consumer's own exit leave it unchanged.
C16_HandleFrame == [][C16_Step]_vars

\* A drifted cycle alerted, its retrain step failed and was reported, and the
\* handle still tracks the cycle's consumer.
C16_Witness ==
    /\ pc = "main_sleep"
    /\ consumer_process \in Pids
    /\ launched = 1
    /\ InTrace("alert")
    /\ report = "step_failed"

\* C18: while the generate step is due or running no consumer is alive, and
\* start_consumer_background is reached only right after a generate step that
\* succeeded.
C18_NoConsumerDuringGenerate ==
    /\ pc = "generate" => Running = {}
    /\ pc = "start_consumer" =>
           (trace[Len(trace)] = "generate" /\ failed = "none" /\ Running = {})
    /\ launched > 0 => (InTrace("generate") /\ failed # "generate")

\* The previous consumer ran into this cycle, and the generate step is due
\* with no consumer alive.
C18_Witness ==
    /\ pc = "generate"
    /\ stopEntry = "running"
    /\ Running = {}

\* That a pipeline step of the cycle succeeded / that the cycle's start raised.
GenerateSucceeded == InTrace("generate") /\ failed # "generate"
StartRaised ==
    /\ Len(trace) > 0
    /\ trace[Len(trace)] = "start"
    /\ exc = "OSError" \/ report = "unexpected"

\* C17: under the fairness of FairSpec every cycle that begins reaches its
\* return to main, and main begins a cycle again and again.
C17_Progress ==
    /\ []<>(pc = "stop_check")
    /\ (pc = "stop_check") ~> (pc = "main_elapsed")

\* A later cycle begins with the previous cycle's consumer still running.
C17_Witness ==
    /\ pc = "stop_check"
    /\ Tracked(consumer_process) = "running"

\* C19 as stated: a cycle launches at most one consumer, and exactly one if
\* and only if its generate step succeeded; after a failed generate step no
\* consumer runs.
C19_LaunchIffGenerate ==
    /\ launched <= 1
    /\ (GenerateSucceeded /\ pc # "start_consumer") <=> launched = 1
    /\ failed = "generate" => (launched = 0 /\ Running = {})

\* C19 amended: a cycle launches at most one consumer and only after its
\* generate step succeeded; once generate has succeeded
\* start_consumer_background is invoked exactly once and launches a consumer
\* unless it raises; after a failed generate step no start is invoked and no
\* consumer runs; and outside stop_consumer_background no SIGTERM is pending,
\* so a later failure leaves the launched consumer alone.
C19_LaunchOncePerCycle ==
    /\ launched <= 1
    /\ launched = 1 => (GenerateSucceeded /\ Count("start") = 1)
    /\ (GenerateSucceeded /\ pc # "start_consumer") =>
           /\ Count("start") = 1
           /\ launched = 1 <=> ~StartRaised
    /\ failed = "generate" =>
           (launched = 0 /\ ~InTrace("start") /\ Running = {})
    /\ failed \in PipelineSteps \ {"generate"} =>
           (launched = 1 /\ Tracked(consumer_process) \in {"running", "exited"})
    /\ pc \notin StopPcs => sigterm = {}

\* The merge step failed and the cycle is over with its consumer running.
C19_Witness ==
    /\ failed = "merge"
    /\ launched = 1
    /\ pc = "main_sleep"
    /\ Tracked(consumer_process) = "running"

====
